---------------------------- MODULE Spec2Model ----------------------------
(***************************************************************************)
(* A model of the two core pipeline stages of the enumeration engine:      *)
(*   - the Data Manager (enum/store.go): Process, dnsRequest, the insertX  *)
(*     record handlers, addrRequest, the ASN worker and Stop;              *)
(*   - the Subdomain Classifier (subdomainTask): Process,                  *)
(*     checkForSubdomains, timesForSubdomain, timesManager and Stop.       *)
(* Strings that the code transforms (record names and data) are sequences  *)
(* of one-character strings, so that ToLower, Trim, TrimSpace, Split and   *)
(* Join are computed; identifiers that are only compared (request names,   *)
(* addresses given to the filter, the cache and the queue) are strings.    *)
(***************************************************************************)
EXTENDS Integers, Sequences, FiniteSets, TLC

VARIABLES
    \* ---- Data Manager (store.go:28-34) ----
    filter,        \* dm.filter: the set of cells of the stable bloom filter that are set
    seen,          \* history: identifiers given to TestAndAdd since the last Reset
    queue,         \* dm.queue: FIFO of queuedAddrRequest
    qsignal,       \* the queue's signal channel holds a token
    signalDone,    \* dm.signalDone is closed
    confirmDone,   \* dm.confirmDone is closed
    cache,         \* enum.Sys.Cache(): the set of ASN records
    inbox,         \* the datum the pipeline hands to Process next, when it is fixed
    last,          \* the most recent Process call: input, calls made in order, result,
                   \* and what the filter held for the identifier when it was called
    wpc,           \* position of processASNRequests / nextInfraInfo
    cur,           \* the queuedAddrRequest nextInfraInfo works on
    polls,         \* loop variable i of the polling loop
    entries,       \* history: per queued entry, what the worker did for it
    atStop,        \* history: the ids that were in the queue when Stop was called
    \* ---- Subdomain Classifier (subdomainTask) ----
    subdomains,    \* timesManager's map (0: the key is absent)
    timesChan,     \* r.timesChan: the buffered request channel
    done,          \* r.done is closed
    tmpc,          \* position of the timesManager goroutine
    withinWildcards, \* r.withinWildcards
    cnames,        \* r.cnames
    procs,         \* per concurrent Process call: position, request, reply channel,
                   \* times, result
    replies,       \* history: per subdomain, the values the manager replied, in order
    emitted,       \* history: the requests given to sendRequests and pipeline.SendData
    minForRecursive \* Config.MinForRecursive

dmVars  == <<filter, seen, queue, qsignal, signalDone, confirmDone, cache, inbox,
             last, wpc, cur, polls, entries, atStop>>
subVars == <<subdomains, timesChan, done, tmpc, withinWildcards, cnames, procs,
             replies, emitted, minForRecursive>>
vars    == <<dmVars, subVars>>

-----------------------------------------------------------------------------
(* Strings as sequences of characters.                                     *)

\* strings.ToLower, on the alphabet the inputs use
LowerChar(c) ==
    CASE c = "A" -> "a"
      [] c = "B" -> "b"
      [] c = "C" -> "c"
      [] OTHER -> c

ToLower(s) == [i \in 1..Len(s) |-> LowerChar(s[i])]

RECURSIVE TrimLeft(_, _)
TrimLeft(s, c) ==
    IF s # <<>> /\ Head(s) = c THEN TrimLeft(Tail(s), c) ELSE s

RECURSIVE TrimRight(_, _)
TrimRight(s, c) ==
    IF s # <<>> /\ s[Len(s)] = c THEN TrimRight(SubSeq(s, 1, Len(s) - 1), c) ELSE s

\* strings.Trim(s, cutset) for a one-character cutset
Trim(s, c) == TrimRight(TrimLeft(s, c), c)

\* strings.TrimSpace
TrimSpace(s) == Trim(s, " ")

\* resolve.RemoveLastDot: drops one trailing dot
RemoveLastDot(s) ==
    IF s # <<>> /\ s[Len(s)] = "." THEN SubSeq(s, 1, Len(s) - 1) ELSE s

\* strings.Split(s, "."): the labels, empty ones included
RECURSIVE SplitFrom(_, _, _)
SplitFrom(s, i, acc) ==
    IF i > Len(s) THEN <<acc>>
    ELSE IF s[i] = "." THEN <<acc>> \o SplitFrom(s, i + 1, <<>>)
    ELSE SplitFrom(s, i + 1, Append(acc, s[i]))

Split(s) == SplitFrom(s, 1, <<>>)

\* strings.Join(labels, ".")
RECURSIVE Join(_)
Join(labels) ==
    IF labels = <<>> THEN <<>>
    ELSE IF Len(labels) = 1 THEN labels[1]
    ELSE labels[1] \o <<".">> \o Join(Tail(labels))

HasSuffix(s, suf) ==
    /\ Len(suf) <= Len(s)
    /\ SubSeq(s, Len(s) - Len(suf) + 1, Len(s)) = suf

-----------------------------------------------------------------------------
(* The collaborators the Data Manager calls, on the inputs of the model.   *)

NilData == "nil"

\* Config.Blacklisted (store.go:93)
Blacklist == {"bad.example.com"}

Blacklisted(name) == name \in Blacklist

\* Config.IsDomainInScope, on request names (store.go:295)
InScopeNames == {"www.example.com", "api.example.com", "bad.example.com"}

IsDomainInScope(name) == name \in InScopeNames

\* Config.WhichDomain on a target taken from record data: the in-scope domain
\* the target equals or is a subdomain of, <<>> for none (store.go:209, 232, 328)
ScopeDomains == {<<"a", ".", "b">>}

WhichDomain(t) ==
    LET hits == {d \in ScopeDomains : t = d \/ HasSuffix(t, <<".">> \o d)}
    IN  IF hits = {} THEN <<>> ELSE CHOOSE d \in hits : TRUE

\* publicsuffix.EffectiveTLDPlusOne (store.go:148, 252, 276): the last two
\* labels; an error (<<>>) for a single label or an empty label
EffectiveTLDPlusOne(t) ==
    LET ls == Split(t)
        n  == Len(ls)
    IN  IF n < 2 \/ \E i \in 1..n : ls[i] = <<>> THEN <<>>
        ELSE Join(<<ls[n - 1], ls[n]>>)

IsDigit(c) == c \in {"1", "2", "3", "4"}
IsAlpha(c) == c \in {"a", "b", "c", "A", "B", "C"}

\* regexp IPv4RE FindAllString (store.go:316-317): dotted quads in the text
FindIPv4(data) ==
    LET t  == Trim(TrimSpace(data), ".")
        ls == Split(t)
    IN  IF Len(ls) = 4 /\ \A i \in 1..4 : Len(ls[i]) = 1 /\ IsDigit(ls[i][1])
        THEN <<t>> ELSE <<>>

\* amassdns.AnySubdomainRegex FindAllString (store.go:326-327): dotted names
\* whose last label is alphabetic
FindNames(data) ==
    LET t  == Trim(TrimSpace(data), ".")
        ls == Split(t)
        n  == Len(ls)
    IN  IF n >= 2 /\ (\A i \in 1..n : ls[i] # <<>>) /\ (\A j \in 1..Len(ls[n]) : IsAlpha(ls[n][j]))
        THEN <<t>> ELSE <<>>

-----------------------------------------------------------------------------
(* dataManager.dnsRequest and the record handlers (store.go:92-337).  A    *)
(* request is [kind, name, domain, source, recs]; a record is              *)
(* [type, rname, data].  The environment of a call is [ctx, gfail, uuid]:  *)
(* ctx is the number of ctx.Done() checks that still find the context      *)
(* live, gfail the index of the record whose graph upsert fails (0: none), *)
(* uuid the session UUID string.  A handler yields the calls it makes, in  *)
(* order, and whether it returned an error.                                *)

Ok(evs)   == [ev |-> evs, err |-> FALSE]
Fail(evs) == [ev |-> evs, err |-> TRUE]

\* variant of CtxLive: cancellation is never observed
CtxLive_Always(env, k) == TRUE

\* the context is still live at its k-th check (k = 0 is the check at Process entry)
CtxLive(env, k) == k < env.ctx

\* a graph upsert of record i: the call, and the error when the graph fails
Upsert(op, req, i, env, args) ==
    LET e == [op |-> op, name |-> req.name, rec |-> i, args |-> args,
              source |-> req.source, ok |-> (env.gfail # i)]
    IN  IF env.gfail = i THEN Fail(<<e>>) ELSE Ok(<<e>>)

\* nameSrc.pipelineData with a DNSRequest
InjectDNS(i, target, domain, source) ==
    [op |-> "pipelineData", kind |-> "DNSRequest", rec |-> i, target |-> target,
     tdomain |-> domain, tag |-> "dns", source |-> source]

\* nameSrc.pipelineData with an AddrRequest
InjectAddr(i, addr, inScope, domain) ==
    [op |-> "pipelineData", kind |-> "AddrRequest", rec |-> i, target |-> addr,
     inScope |-> inScope, rdomain |-> domain, tag |-> "dns", source |-> "DNS"]

Then(a, b) == IF b.err THEN Fail(a \o b.ev) ELSE Ok(a \o b.ev)

\* store.go:98-99
NormRec(r) ==
    [r EXCEPT !.rname = Trim(ToLower(r.rname), "."),
              !.data  = Trim(ToLower(r.data), ".")]

insertCNAME(req, i, env) ==
    LET target == RemoveLastDot(NormRec(req.recs[i]).data)
        domain == EffectiveTLDPlusOne(target)
    IN  IF target = <<>> THEN Fail(<<>>)
        ELSE IF domain = <<>> THEN Fail(<<>>)
        ELSE Then(<<InjectDNS(i, target, ToLower(domain), "DNS")>>,
                  Upsert("UpsertCNAME", req, i, env, <<target>>))

insertAddr(op, req, i, env) ==
    LET addr == TrimSpace(NormRec(req.recs[i]).data)
    IN  IF addr = <<>> THEN Fail(<<>>)
        ELSE Then(<<[op |-> "checkForMissedWildcards", rec |-> i, target |-> addr],
                    InjectAddr(i, addr, TRUE, req.domain)>>,
                  Upsert(op, req, i, env, <<addr>>))

\* variant of insertA: the address is stored but not handed back to the pipeline
insertA_NoInject(req, i, env) ==
    LET addr == TrimSpace(NormRec(req.recs[i]).data)
    IN  IF addr = <<>> THEN Fail(<<>>)
        ELSE Upsert("UpsertA", req, i, env, <<addr>>)

insertA(req, i, env) == insertAddr("UpsertA", req, i, env)

insertAAAA(req, i, env) == insertAddr("UpsertAAAA", req, i, env)

insertPTR(req, i, env) ==
    LET target == RemoveLastDot(NormRec(req.recs[i]).data)
        domain == ToLower(WhichDomain(target))
    IN  IF target = <<>> THEN Fail(<<>>)
        ELSE IF domain = <<>> THEN Ok(<<>>)
        ELSE Then(<<InjectDNS(i, target, domain, "Reverse DNS")>>,
                  Upsert("UpsertPTR", req, i, env, <<target>>))

insertSRV(req, i, env) ==
    LET service == RemoveLastDot(NormRec(req.recs[i]).rname)
        target  == RemoveLastDot(NormRec(req.recs[i]).data)
        domain  == WhichDomain(target)
    IN  IF target = <<>> \/ service = <<>> THEN Fail(<<>>)
        ELSE Then(IF domain # <<>> THEN <<InjectDNS(i, target, domain, "DNS")>> ELSE <<>>,
                  Upsert("UpsertSRV", req, i, env, <<service, target>>))

insertNSMX(op, target, req, i, env) ==
    LET domain == EffectiveTLDPlusOne(target)
        d      == ToLower(domain)
    IN  IF target = <<>> THEN Fail(<<>>)
        ELSE IF domain = <<>> THEN Fail(<<>>)
        ELSE Then(IF target # d THEN <<InjectDNS(i, target, d, "DNS")>> ELSE <<>>,
                  Upsert(op, req, i, env, <<target>>))

insertNS(req, i, env) ==
    insertNSMX("UpsertNS", NormRec(req.recs[i]).data, req, i, env)

insertMX(req, i, env) ==
    insertNSMX("UpsertMX", RemoveLastDot(NormRec(req.recs[i]).data), req, i, env)

findNamesAndAddresses(i, data, domain) ==
    LET ips   == FindIPv4(data)
        names == FindNames(data)
    IN  [k \in 1..Len(ips) |-> InjectAddr(i, ips[k], FALSE, domain)]
        \o (IF names # <<>> /\ ToLower(WhichDomain(names[1])) # <<>>
            THEN <<InjectDNS(i, names[1], ToLower(WhichDomain(names[1])), "DNS")>>
            ELSE <<>>)

\* insertTXT, insertSOA and insertSPF
insertTXT(req, i, env) ==
    IF IsDomainInScope(req.name)
    THEN Ok(findNamesAndAddresses(i, NormRec(req.recs[i]).data, req.domain))
    ELSE Ok(<<>>)

\* the switch of store.go:115-134
insertRecord(req, i, env) ==
    LET t == req.recs[i].type
    IN  CASE t = "A"    -> insertA(req, i, env)
          [] t = "AAAA" -> insertAAAA(req, i, env)
          [] t = "PTR"  -> insertPTR(req, i, env)
          [] t = "SRV"  -> insertSRV(req, i, env)
          [] t = "NS"   -> insertNS(req, i, env)
          [] t = "MX"   -> insertMX(req, i, env)
          [] t \in {"TXT", "SOA", "SPF"} -> insertTXT(req, i, env)
          [] OTHER -> Ok(<<>>)

\* variant of FirstCNAME: the last CNAME record is taken
FirstCNAME_Last(recs) ==
    LET cs == {i \in 1..Len(recs) : recs[i].type = "CNAME"}
    IN  IF cs = {} THEN 0 ELSE CHOOSE i \in cs : \A j \in cs : i >= j

\* the index of the first CNAME record, 0 for none (store.go:97-105)
FirstCNAME(recs) ==
    LET cs == {i \in 1..Len(recs) : recs[i].type = "CNAME"}
    IN  IF cs = {} THEN 0 ELSE CHOOSE i \in cs : \A j \in cs : i <= j

\* variant of recordLoop: the records after a failed one are entered as well
RECURSIVE recordLoop_NoBreak(_, _, _)
recordLoop_NoBreak(req, i, env) ==
    IF i > Len(req.recs) THEN Ok(<<>>)
    ELSE IF ~CtxLive(env, i) THEN Ok(<<>>)
    ELSE LET r    == insertRecord(req, i, env)
             rest == recordLoop_NoBreak(req, i + 1, env)
         IN  IF r.err \/ rest.err THEN Fail(r.ev \o rest.ev) ELSE Ok(r.ev \o rest.ev)

\* the loop of store.go:108-138, from record i on
RECURSIVE recordLoop(_, _, _)
recordLoop(req, i, env) ==
    IF i > Len(req.recs) THEN Ok(<<>>)
    ELSE IF ~CtxLive(env, i) THEN Ok(<<>>)
    ELSE LET r == insertRecord(req, i, env)
         IN  IF r.err THEN r ELSE Then(r.ev, recordLoop(req, i + 1, env))

\* variant of dnsRequest: CNAME records are entered along with their siblings
dnsRequest_NoShortCircuit(req, env) ==
    IF Blacklisted(req.name) THEN Ok(<<>>)
    ELSE LET c == FirstCNAME(req.recs)
             r == IF c # 0 THEN insertCNAME(req, c, env) ELSE Ok(<<>>)
         IN  IF r.err THEN r ELSE Then(r.ev, recordLoop(req, 1, env))

dnsRequest(req, env) ==
    IF Blacklisted(req.name) THEN Ok(<<>>)
    ELSE IF FirstCNAME(req.recs) # 0 THEN insertCNAME(req, FirstCNAME(req.recs), env)
    ELSE recordLoop(req, 1, env)

-----------------------------------------------------------------------------
(* Addresses, prefixes and the ASN cache (store.go:344-377, 395-448).      *)
(* net.ParseIP yields the address family and its groups (octets for IPv4,  *)
(* 16-bit groups for IPv6); a prefix is [fam, groups, bits].               *)

NoIP == [fam |-> 0, groups |-> <<>>]

\* net.ParseIP, on the addresses of the model
ParseIP(addr) ==
    CASE addr = "198.51.100.7"  -> [fam |-> 4, groups |-> <<198, 51, 100, 7>>]
      [] addr = "198.51.100.9"  -> [fam |-> 4, groups |-> <<198, 51, 100, 9>>]
      [] addr = "10.0.0.1"      -> [fam |-> 4, groups |-> <<10, 0, 0, 1>>]
      [] addr = "2001:db8:1::7" -> [fam |-> 6, groups |-> <<8193, 3512, 1, 0, 0, 0, 0, 7>>]
      [] OTHER -> NoIP

\* amassnet.IsIPv6 (store.go:441)
IsIPv6(ip) == ip.fam = 6

GroupBits(fam) == IF fam = 6 THEN 16 ELSE 8

RECURSIVE Pow2(_)
Pow2(n) == IF n = 0 THEN 1 ELSE 2 * Pow2(n - 1)

\* net.CIDRMask(bits, total) applied by IP.Mask (store.go:446-447)
Mask(ip, bits) ==
    LET w == GroupBits(ip.fam)
    IN  [i \in 1..Len(ip.groups) |->
            IF i * w <= bits THEN ip.groups[i]
            ELSE IF (i - 1) * w >= bits THEN 0
            ELSE (ip.groups[i] \div Pow2(i * w - bits)) * Pow2(i * w - bits)]

\* variant of fakePrefix: the address is given the prefix length but not masked
fakePrefix_Unmasked(addr) ==
    LET ip   == ParseIP(addr)
        bits == IF IsIPv6(ip) THEN 48 ELSE 24
    IN  [fam |-> ip.fam, groups |-> ip.groups, bits |-> bits]

\* fakePrefix (store.go:436-448)
fakePrefix(addr) ==
    LET ip   == ParseIP(addr)
        bits == IF IsIPv6(ip) THEN 48 ELSE 24
    IN  [fam |-> ip.fam, groups |-> Mask(ip, bits), bits |-> bits]

\* net.ParseCIDR (store.go:425): the address part and the network
ParseCIDR(prefix) ==
    [first |-> [fam |-> prefix.fam, groups |-> prefix.groups],
     cidr  |-> [prefix EXCEPT !.groups = Mask([fam |-> prefix.fam, groups |-> prefix.groups],
                                             prefix.bits)]]

Contains(prefix, ip) ==
    /\ ip.fam = prefix.fam
    /\ Mask(ip, prefix.bits) = prefix.groups

\* amassnet.IsReservedAddress (store.go:355)
ReservedCIDRs == {[fam |-> 4, groups |-> <<10, 0, 0, 0>>, bits |-> 8]}

ReservedPrefixes(addr) == {p \in ReservedCIDRs : Contains(p, ParseIP(addr))}

NoRecord == [asn |-> -1]

\* Cache().AddrSearch (store.go:363, 405, 413): the records whose prefix holds
\* the address; NoRecord stands for nil
AddrSearch(c, addr) ==
    LET hits == {r \in c : Contains(r.prefix, ParseIP(addr))}
    IN  IF hits = {} THEN {NoRecord} ELSE hits

\* what the lookup sources put into the cache
SourceRecords ==
    {[asn |-> 64500, desc |-> "EXAMPLE-NET", source |-> "RADB",
      prefix |-> [fam |-> 4, groups |-> <<198, 51, 100, 0>>, bits |-> 24],
      address |-> [fam |-> 4, groups |-> <<198, 51, 100, 0>>]]}

\* graph.UpsertInfrastructure (store.go:357, 365, 406, 414, 423)
UpsertInfrastructure(asn, desc, addr, prefix, source, uuid) ==
    [op |-> "UpsertInfrastructure", asn |-> asn, desc |-> desc, address |-> addr,
     prefix |-> prefix, source |-> source, uuid |-> uuid]

\* variant of addrRequest: the reserved ranges are not looked at
addrRequest_NoReserved(req, env, hit) ==
    IF ~CtxLive(env, 1) THEN <<>>
    ELSE IF ~req.inScope \/ env.uuid = "" THEN <<>>
    ELSE IF hit # NoRecord
    THEN <<[op |-> "AddrSearch", address |-> req.address, hit |-> TRUE],
           UpsertInfrastructure(hit.asn, hit.desc, req.address, hit.prefix,
                                hit.source, env.uuid)>>
    ELSE <<[op |-> "AddrSearch", address |-> req.address, hit |-> FALSE],
           [op |-> "Append", address |-> req.address]>>

\* variant of addrRequest: the InScope flag is not looked at
addrRequest_NoScope(req, env, hit) ==
    IF ~CtxLive(env, 1) THEN <<>>
    ELSE IF env.uuid = "" THEN <<>>
    ELSE IF ReservedPrefixes(req.address) # {}
    THEN <<UpsertInfrastructure(0, "Reserved Network Address Blocks", req.address,
                                CHOOSE p \in ReservedPrefixes(req.address) : TRUE,
                                "RIR", env.uuid)>>
    ELSE IF hit # NoRecord
    THEN <<[op |-> "AddrSearch", address |-> req.address, hit |-> TRUE],
           UpsertInfrastructure(hit.asn, hit.desc, req.address, hit.prefix,
                                hit.source, env.uuid)>>
    ELSE <<[op |-> "AddrSearch", address |-> req.address, hit |-> FALSE],
           [op |-> "Append", address |-> req.address]>>

\* addrRequest (store.go:344-377) with the cache answer hit: the calls it makes
addrRequest(req, env, hit) ==
    IF ~CtxLive(env, 1) THEN <<>>
    ELSE IF ~req.inScope \/ env.uuid = "" THEN <<>>
    ELSE IF ReservedPrefixes(req.address) # {}
    THEN <<UpsertInfrastructure(0, "Reserved Network Address Blocks", req.address,
                                CHOOSE p \in ReservedPrefixes(req.address) : TRUE,
                                "RIR", env.uuid)>>
    ELSE IF hit # NoRecord
    THEN <<[op |-> "AddrSearch", address |-> req.address, hit |-> TRUE],
           UpsertInfrastructure(hit.asn, hit.desc, req.address, hit.prefix,
                                hit.source, env.uuid)>>
    ELSE <<[op |-> "AddrSearch", address |-> req.address, hit |-> FALSE],
           [op |-> "Append", address |-> req.address]>>

Appends(evs) == \E k \in 1..Len(evs) : evs[k].op = "Append"

-----------------------------------------------------------------------------
(* The deduplication filter (store.go:33, 43, 51, 86): a stable bloom      *)
(* filter of one-bit cells.  TestAndAdd reports whether all cells of the   *)
(* identifier are set, clears FilterP cells starting at a random cell,     *)
(* then sets the identifier's cells.                                       *)

FilterCells == 2

FilterP == 1

\* the hash of an identifier, before the reduction modulo the cell count
HashKernel(id) ==
    CASE id = "www.example.com" -> 0
      [] id = "api.example.com" -> 2
      [] id = "bad.example.com" -> 1
      [] id = "198.51.100.7"    -> 3
      [] id = "198.51.100.9"    -> 5
      [] id = "10.0.0.1"        -> 4
      [] id = "2001:db8:1::7"   -> 7
      [] OTHER -> 6

HashCells(id) == {HashKernel(id) % FilterCells}

DecrementCells(r) == {(r + i) % FilterCells : i \in 0..(FilterP - 1)}

TestAndAdd(f, id, r) ==
    [member |-> HashCells(id) \subseteq f,
     cells  |-> (f \ DecrementCells(r)) \cup HashCells(id)]

-----------------------------------------------------------------------------
(* dataManager.Process (store.go:57-90).                                   *)

IdOf(data) ==
    CASE data.kind = "DNS"  -> data.name
      [] data.kind = "Addr" -> data.address
      [] OTHER -> ""

\* variant of ProcessCall: the filter is asked first and a datum it reports as
\* seen is dropped before any side effect
ProcessCall_FilterFirst(data, env, f, r, hit) ==
    LET id      == IdOf(data)
        effects == CASE data.kind = "DNS"  -> dnsRequest(data, env).ev
                     [] data.kind = "Addr" -> addrRequest(data, env, hit)
                     [] OTHER -> <<>>
        t       == TestAndAdd(f, id, r)
        test    == <<[op |-> "TestAndAdd", id |-> id, member |-> t.member]>>
    IN  IF data.isNil THEN [ev |-> <<>>, cells |-> f, added |-> {}, result |-> NilData]
        ELSE IF id = "" THEN [ev |-> effects, cells |-> f, added |-> {}, result |-> "data"]
        ELSE IF t.member
        THEN [ev |-> test, cells |-> t.cells, added |-> {id}, result |-> NilData]
        ELSE [ev |-> test \o effects, cells |-> t.cells, added |-> {id}, result |-> "data"]

\* the body of Process on a live context: the calls made in order, the filter
\* afterwards and the datum returned
ProcessCall(data, env, f, r, hit) ==
    LET id      == IdOf(data)
        effects == CASE data.kind = "DNS"  -> dnsRequest(data, env).ev
                     [] data.kind = "Addr" -> addrRequest(data, env, hit)
                     [] OTHER -> <<>>
        t       == TestAndAdd(f, id, r)
    IN  IF data.isNil THEN [ev |-> <<>>, cells |-> f, added |-> {}, result |-> NilData]
        ELSE IF id = "" THEN [ev |-> effects, cells |-> f, added |-> {}, result |-> "data"]
        ELSE [ev     |-> effects \o <<[op |-> "TestAndAdd", id |-> id, member |-> t.member]>>,
              cells  |-> t.cells,
              added  |-> {id},
              result |-> IF t.member THEN NilData ELSE "data"]

MaxEntries == 2

\* a queuedAddrRequest, with what the worker has done for it so far: the
\* ASNRequests sent, the UpsertInfrastructure calls and the cache Updates
NewEntry(addr, env) ==
    [addr |-> addr, uuid |-> env.uuid, ctx |-> env.ctx, asnreq |-> <<>>, infra |-> <<>>,
     upd |-> <<>>]

DMProcess(data, env) ==
    \E r \in 0..(FilterCells - 1) :
    \E hit \in (IF data.kind = "Addr" THEN AddrSearch(cache, data.address) ELSE {NoRecord}) :
        LET c == IF CtxLive(env, 0) THEN ProcessCall(data, env, filter, r, hit)
                 ELSE [ev |-> <<>>, cells |-> filter, added |-> {}, result |-> NilData]
        IN  /\ Appends(c.ev) => Len(entries) < MaxEntries
            /\ filter' = c.cells
            /\ seen' = seen \cup c.added
            /\ last' = [data |-> data, env |-> env, ev |-> c.ev, result |-> c.result,
                        first   |-> (c.added # {} /\ c.added \cap seen = {}),
                        present |-> (c.added # {} /\ HashCells(IdOf(data)) \subseteq filter),
                        clash   |-> (c.added # {} /\ \E j \in seen \ c.added :
                                        HashCells(j) \cap HashCells(IdOf(data)) # {})]
            /\ IF Appends(c.ev)
               THEN /\ queue' = Append(queue, Len(entries) + 1)
                    /\ entries' = Append(entries, NewEntry(data.address, env))
                    /\ qsignal' = TRUE
               ELSE UNCHANGED <<queue, entries, qsignal>>
            /\ UNCHANGED <<signalDone, confirmDone, cache, wpc, cur, polls, atStop>>
            /\ UNCHANGED subVars

\* dataManager.Stop (store.go:50-54)
DMStop ==
    /\ ~signalDone
    /\ filter' = {}
    /\ seen' = {}
    /\ signalDone' = TRUE
    /\ atStop' = {queue[k] : k \in 1..Len(queue)}
    /\ UNCHANGED <<queue, qsignal, confirmDone, cache, inbox, last, wpc, cur, polls,
                   entries>>
    /\ UNCHANGED subVars

\* a lookup source answers: Cache().Update outside the Data Manager
CacheUpdate ==
    /\ \E rec \in SourceRecords \ cache : cache' = cache \cup {rec}
    /\ UNCHANGED <<filter, seen, queue, qsignal, signalDone, confirmDone, inbox,
                   last, wpc, cur, polls, entries, atStop>>
    /\ UNCHANGED subVars

-----------------------------------------------------------------------------
(* The ASN worker: processASNRequests and nextInfraInfo (store.go:379-434). *)

MaxPolls == 30

\* queue.Next (store.go:396): the head leaves the queue, and the queue signals
\* again while elements remain
AfterNext == IF Len(queue) > 1 THEN TRUE ELSE qsignal

\* store.go:405-408 and 413-416: a cache hit is upserted
UpsertHit(e, via, hit) ==
    [e EXCEPT !.infra = Append(@,
        [via |-> via,
         call |-> UpsertInfrastructure(hit.asn, hit.desc, e.addr, hit.prefix,
                                       hit.source, e.uuid)])]

\* requests.ASNRequest{Address: req.Address} (store.go:410): the other fields
\* keep their zero values
ASNRequest(addr) ==
    [address |-> addr, asn |-> 0, prefix |-> "", desc |-> "", source |-> ""]

\* variant of NextInfraInfo: the ASNRequest is sent before the cache is probed
NextInfraInfo_RequestFirst ==
    LET id == Head(queue)
        e  == entries[id]
    IN  /\ queue' = Tail(queue)
        /\ \E hit \in AddrSearch(cache, e.addr) :
              IF hit # NoRecord
              THEN /\ entries' = [entries EXCEPT ![id] =
                                     UpsertHit([e EXCEPT !.asnreq = Append(@, ASNRequest(e.addr))],
                                               "reprobe", hit)]
                   /\ UNCHANGED <<wpc, cur, polls>>
              ELSE /\ entries' = [entries EXCEPT ![id].asnreq = Append(@, ASNRequest(e.addr))]
                   /\ wpc' = "poll"
                   /\ cur' = id
                   /\ polls' = 0

\* nextInfraInfo up to the polling loop (store.go:395-410), with the head of
\* the queue: the re-probe, then the upsert or the ASNRequest
NextInfraInfo ==
    LET id == Head(queue)
        e  == entries[id]
    IN  /\ queue' = Tail(queue)
        /\ \E hit \in AddrSearch(cache, e.addr) :
              IF hit # NoRecord
              THEN /\ entries' = [entries EXCEPT ![id] = UpsertHit(e, "reprobe", hit)]
                   /\ UNCHANGED <<wpc, cur, polls>>
              ELSE /\ entries' = [entries EXCEPT ![id].asnreq = Append(@, ASNRequest(e.addr))]
                   /\ wpc' = "poll"
                   /\ cur' = id
                   /\ polls' = 0

\* variant of WorkerExit: the worker leaves on the shutdown signal alone
WorkerExit_NoDrain ==
    /\ wpc = "select"
    /\ signalDone
    /\ confirmDone' = TRUE
    /\ wpc' = "done"
    /\ UNCHANGED <<filter, seen, queue, qsignal, signalDone, cache, inbox, last, cur,
                   polls, entries, atStop>>
    /\ UNCHANGED subVars

\* store.go:383-386, 392: the shutdown signal with an empty queue ends the loop,
\* and the confirmation channel is closed
WorkerExit ==
    /\ wpc = "select"
    /\ signalDone
    /\ queue = <<>>
    /\ confirmDone' = TRUE
    /\ wpc' = "done"
    /\ UNCHANGED <<filter, seen, queue, qsignal, signalDone, cache, inbox, last, cur,
                   polls, entries, atStop>>
    /\ UNCHANGED subVars

\* store.go:383-387: the shutdown signal with elements left
WorkerDrain ==
    /\ wpc = "select"
    /\ signalDone
    /\ queue # <<>>
    /\ qsignal' = AfterNext
    /\ NextInfraInfo
    /\ UNCHANGED <<filter, seen, signalDone, confirmDone, cache, inbox, last, atStop>>
    /\ UNCHANGED subVars

\* store.go:388-389: the queue signal; Next may find the queue empty (397-399)
WorkerSignal ==
    /\ wpc = "select"
    /\ qsignal
    /\ IF queue = <<>>
       THEN /\ qsignal' = FALSE
            /\ UNCHANGED <<queue, entries, wpc, cur, polls>>
       ELSE /\ qsignal' = (Len(queue) > 1)
            /\ NextInfraInfo
    /\ UNCHANGED <<filter, seen, signalDone, confirmDone, cache, inbox, last, atStop>>
    /\ UNCHANGED subVars

\* variant of WorkerPoll: the iterations are not counted
WorkerPoll_NoCount ==
    /\ wpc = "poll"
    /\ polls < MaxPolls
    /\ \E hit \in AddrSearch(cache, entries[cur].addr) :
          IF hit # NoRecord
          THEN /\ entries' = [entries EXCEPT ![cur] = UpsertHit(@, "poll", hit)]
               /\ wpc' = "select"
               /\ cur' = 0
               /\ polls' = 0
          ELSE UNCHANGED <<entries, wpc, cur, polls>>
    /\ UNCHANGED <<filter, seen, queue, qsignal, signalDone, confirmDone, cache, inbox,
                   last, atStop>>
    /\ UNCHANGED subVars

\* one iteration of the polling loop (store.go:412-418)
WorkerPoll ==
    /\ wpc = "poll"
    /\ polls < MaxPolls
    /\ \E hit \in AddrSearch(cache, entries[cur].addr) :
          IF hit # NoRecord
          THEN /\ entries' = [entries EXCEPT ![cur] = UpsertHit(@, "poll", hit)]
               /\ wpc' = "select"
               /\ cur' = 0
               /\ polls' = 0
          ELSE /\ polls' = polls + 1
               /\ UNCHANGED <<entries, wpc, cur>>
    /\ UNCHANGED <<filter, seen, queue, qsignal, signalDone, confirmDone, cache, inbox,
                   last, atStop>>
    /\ UNCHANGED subVars

\* the fallback upsert (store.go:420-423)
WorkerFallback ==
    /\ wpc = "poll"
    /\ polls = MaxPolls
    /\ entries' = [entries EXCEPT ![cur].infra = Append(@,
                      [via |-> "fallback",
                       call |-> UpsertInfrastructure(0, "Unknown", entries[cur].addr,
                                                     fakePrefix(entries[cur].addr),
                                                     "RIR", entries[cur].uuid)])]
    /\ wpc' = "update"
    /\ UNCHANGED <<filter, seen, queue, qsignal, signalDone, confirmDone, cache, inbox,
                   last, cur, polls, atStop>>
    /\ UNCHANGED subVars

\* the ASNRequest written into the cache after the fallback (store.go:425-433)
FallbackRecord(addr) ==
    LET pc == ParseCIDR(fakePrefix(addr))
    IN  [asn |-> 0, desc |-> "Unknown", source |-> "RIR", prefix |-> pc.cidr,
         address |-> pc.first]

WorkerUpdate ==
    /\ wpc = "update"
    /\ cache' = cache \cup {FallbackRecord(entries[cur].addr)}
    /\ entries' = [entries EXCEPT ![cur].upd = Append(@, FallbackRecord(entries[cur].addr))]
    /\ wpc' = "select"
    /\ cur' = 0
    /\ polls' = 0
    /\ UNCHANGED <<filter, seen, queue, qsignal, signalDone, confirmDone, inbox, last,
                   atStop>>
    /\ UNCHANGED subVars

NoCall ==
    [data |-> [kind |-> "None", isNil |-> TRUE],
     env |-> [ctx |-> 0, gfail |-> 0, uuid |-> ""], ev |-> <<>>, result |-> NilData,
     first |-> FALSE, present |-> FALSE, clash |-> FALSE]

NoInput == [pending |-> FALSE]

DMInit ==
    /\ filter = {}
    /\ seen = {}
    /\ queue = <<>>
    /\ qsignal = FALSE
    /\ signalDone = FALSE
    /\ confirmDone = FALSE
    /\ cache = {}
    /\ last = NoCall
    /\ wpc = "select"
    /\ cur = 0
    /\ polls = 0
    /\ entries = <<>>
    /\ atStop = {}

-----------------------------------------------------------------------------
(* The Subdomain Classifier (subdomainTask).  Request names and domains    *)
(* are character sequences.                                                *)

MaxProcs == 4

MinForRecursive == 2

TimesChanCap == 10

ProcIds == 1..MaxProcs

\* the names the pipeline hands to the classifier, all under the domain a.b
NameXW == <<"x", ".", "w", ".", "a", ".", "b">>
NameYW == <<"y", ".", "w", ".", "a", ".", "b">>
NameXN == <<"x", ".", "n", ".", "a", ".", "b">>
NameXS == <<"x", ".", "s", ".", "a", ".", "b">>
DomainAB == <<"a", ".", "b">>
NameApex == DomainAB
NameOut == <<"x", ".", "c", ".", "d">>
NameSrv == <<"_", "t", "c", "p", ".", "s", ".", "a", ".", "b">>

\* variant of ParentOf: the labels of the domain are not counted
ParentOf_NoDomainCheck(name, domain) ==
    LET nlabels == Split(name)
    IN  IF Len(nlabels) < 2 THEN <<>>
        ELSE TrimSpace(Join(Tail(nlabels)))

\* the parent subdomain of a name (part_000:86-98): <<>> when the name is too
\* short to have one
ParentOf(name, domain) ==
    LET nlabels == Split(name)
        dlabels == Split(domain)
    IN  IF Len(nlabels) < 2 THEN <<>>
        ELSE IF Len(nlabels) - 1 < Len(dlabels) THEN <<>>
        ELSE TrimSpace(Join(Tail(nlabels)))

AllSubs == {ParentOf(n, DomainAB) : n \in {NameXW, NameYW, NameXN, NameXS, NameApex}}
               \ {<<>>}

\* TrustedResolvers().WildcardDetected on the answers for "a."+parent
\* (part_000:129-143): the parents that lie under a wildcard
WildcardSubs == {<<"w", ".", "a", ".", "b">>}

\* graph.IsCNAMENode (part_000:105)
CNAMENodes == {<<"n", ".", "a", ".", "b">>}

subWithinWildcard(ctxLive, sub) == ctxLive /\ sub \in WildcardSubs

IsCNAMENode(sub) == sub \in CNAMENodes

\* Config.IsDomainInScope on a request name (part_000:61)
NameInScope(name) == WhichDomain(ToLower(name)) # <<>>

\* part_000:65-71
IsServiceName(name) ==
    \E i \in 1..Len(Split(name)) :
        ToLower(Split(name)[i]) \in {<<"_", "t", "c", "p">>, <<"_", "u", "d", "p">>,
                                     <<"_", "t", "l", "s">>}

SubdomainRequest(req, sub, times, to) ==
    [kind |-> "SubdomainRequest", to |-> to, name |-> sub, domain |-> req.domain,
     times |-> times]

ResolvedRequest(req) ==
    [kind |-> "ResolvedRequest", to |-> "handlers", name |-> req.name,
     domain |-> req.domain, times |-> 0]

\* variant of checkForSubdomains: every emitted SubdomainRequest is also
\* injected into "root"
checkForSubdomains_RootAlways(req, sub, times, ctxLive, ww, cn) ==
    IF times = 1 /\ subWithinWildcard(ctxLive, sub)
    THEN [fwd |-> FALSE, ww |-> ww \cup {sub}, cn |-> cn, out |-> {}, probed |-> TRUE]
    ELSE IF times > 1 /\ sub \in ww
    THEN [fwd |-> FALSE, ww |-> ww, cn |-> cn, out |-> {}, probed |-> FALSE]
    ELSE IF times = 1 /\ IsCNAMENode(sub)
    THEN [fwd |-> FALSE, ww |-> ww, cn |-> cn \cup {sub}, out |-> {}, probed |-> TRUE]
    ELSE IF times > 1 /\ sub \in cn
    THEN [fwd |-> FALSE, ww |-> ww, cn |-> cn, out |-> {}, probed |-> FALSE]
    ELSE IF times > minForRecursive
    THEN [fwd |-> TRUE, ww |-> ww, cn |-> cn, out |-> {}, probed |-> (times = 1)]
    ELSE [fwd |-> TRUE, ww |-> ww, cn |-> cn, probed |-> (times = 1),
          out |-> {SubdomainRequest(req, sub, times, "handlers"),
                   SubdomainRequest(req, sub, times, "root")}]

\* variant of checkForSubdomains: the sets are consulted at the first
\* observation only
checkForSubdomains_NoSticky(req, sub, times, ctxLive, ww, cn) ==
    IF times = 1 /\ subWithinWildcard(ctxLive, sub)
    THEN [fwd |-> FALSE, ww |-> ww \cup {sub}, cn |-> cn, out |-> {}, probed |-> TRUE]
    ELSE IF times = 1 /\ IsCNAMENode(sub)
    THEN [fwd |-> FALSE, ww |-> ww, cn |-> cn \cup {sub}, out |-> {}, probed |-> TRUE]
    ELSE IF times > minForRecursive
    THEN [fwd |-> TRUE, ww |-> ww, cn |-> cn, out |-> {}, probed |-> (times = 1)]
    ELSE [fwd |-> TRUE, ww |-> ww, cn |-> cn, probed |-> (times = 1),
          out |-> {SubdomainRequest(req, sub, times, "handlers")}
                  \cup (IF times = 1 THEN {SubdomainRequest(req, sub, times, "root")}
                        ELSE {})]

\* checkForSubdomains from the reply of the times manager on (part_000:100-127),
\* with the sets as they are then: the verdict, the sets afterwards, the requests
\* sent, and whether the wildcard probe was run
checkForSubdomains(req, sub, times, ctxLive, ww, cn) ==
    IF times = 1 /\ subWithinWildcard(ctxLive, sub)
    THEN [fwd |-> FALSE, ww |-> ww \cup {sub}, cn |-> cn, out |-> {}, probed |-> TRUE]
    ELSE IF times > 1 /\ sub \in ww
    THEN [fwd |-> FALSE, ww |-> ww, cn |-> cn, out |-> {}, probed |-> FALSE]
    ELSE IF times = 1 /\ IsCNAMENode(sub)
    THEN [fwd |-> FALSE, ww |-> ww, cn |-> cn \cup {sub}, out |-> {}, probed |-> TRUE]
    ELSE IF times > 1 /\ sub \in cn
    THEN [fwd |-> FALSE, ww |-> ww, cn |-> cn, out |-> {}, probed |-> FALSE]
    ELSE IF times > minForRecursive
    THEN [fwd |-> TRUE, ww |-> ww, cn |-> cn, out |-> {}, probed |-> (times = 1)]
    ELSE [fwd |-> TRUE, ww |-> ww, cn |-> cn, probed |-> (times = 1),
          out |-> {SubdomainRequest(req, sub, times, "handlers")}
                  \cup (IF times = 1 THEN {SubdomainRequest(req, sub, times, "root")}
                        ELSE {})]

IdleProc ==
    [pc |-> "idle", req |-> [kind |-> "None"], ctxLive |-> TRUE, sub |-> <<>>,
     ticket |-> 0, reply |-> 0, times |-> 0, fwd |-> FALSE, probed |-> FALSE,
     result |-> "none"]

Returned(pr, req, ctxLive, result) ==
    [pr EXCEPT !.pc = "done", !.req = req, !.ctxLive = ctxLive, !.result = result]

\* subdomainTask.Process up to the send of timesForSubdomain (part_000:50-73,
\* 85-99, 194-200): a call that needs no count returns at once
SubStart(p, req, ctxLive) ==
    LET sub == ParentOf(req.name, req.domain)
    IN  /\ procs[p].pc = "idle"
        /\ IF ~ctxLive THEN
              /\ procs' = [procs EXCEPT ![p] = Returned(@, req, ctxLive, NilData)]
              /\ UNCHANGED timesChan
           ELSE IF req.kind # "DNS" THEN
              /\ procs' = [procs EXCEPT ![p] = Returned(@, req, ctxLive, "data")]
              /\ UNCHANGED timesChan
           ELSE IF req.isNil \/ ~NameInScope(req.name) \/ IsServiceName(req.name) THEN
              /\ procs' = [procs EXCEPT ![p] = Returned(@, req, ctxLive, NilData)]
              /\ UNCHANGED timesChan
           ELSE IF sub = <<>> THEN
              /\ procs' = [procs EXCEPT ![p] = Returned(@, req, ctxLive, "data")]
              /\ UNCHANGED timesChan
           ELSE
              /\ Len(timesChan) < TimesChanCap
              /\ timesChan' = Append(timesChan, [sub |-> sub, ch |-> p])
              /\ procs' = [procs EXCEPT ![p] =
                              [@ EXCEPT !.pc = "wait", !.req = req, !.ctxLive = ctxLive,
                                        !.sub = sub,
                                        !.ticket = 1 + Cardinality({q \in ProcIds :
                                                       procs[q].ticket > 0 /\ procs[q].sub = sub})]]
        /\ UNCHANGED <<subdomains, done, tmpc, withinWildcards, cnames, replies, emitted,
                      minForRecursive>>
        /\ UNCHANGED dmVars

\* variant of NextTimes: a key that is found keeps its count
NextTimes_Stuck(m, sub) == IF m[sub] > 0 THEN m[sub] ELSE 1

\* part_000:217-222
NextTimes(m, sub) == IF m[sub] > 0 THEN m[sub] + 1 ELSE 1

\* timesManager serves the request at the head of timesChan (part_000:216-225)
TimesServe ==
    /\ tmpc = "select"
    /\ timesChan # <<>>
    /\ LET req   == Head(timesChan)
           times == NextTimes(subdomains, req.sub)
       IN  /\ subdomains' = [subdomains EXCEPT ![req.sub] = times]
           /\ procs' = [procs EXCEPT ![req.ch].reply = times]
           /\ replies' = [replies EXCEPT ![req.sub] = Append(@, times)]
    /\ timesChan' = Tail(timesChan)
    /\ UNCHANGED <<done, tmpc, withinWildcards, cnames, emitted, minForRecursive>>
    /\ UNCHANGED dmVars

\* timesManager observes done (part_000:214-215)
TimesExit ==
    /\ tmpc = "select"
    /\ done
    /\ tmpc' = "exited"
    /\ UNCHANGED <<subdomains, timesChan, done, withinWildcards, cnames, procs, replies,
                   emitted, minForRecursive>>
    /\ UNCHANGED dmVars

\* the reply arrives: the rest of checkForSubdomains and of Process
\* (part_000:201, 100-127, 73-82)
SubFinish(p) ==
    /\ procs[p].pc = "wait"
    /\ procs[p].reply > 0
    /\ LET pr == procs[p]
           c  == checkForSubdomains(pr.req, pr.sub, pr.reply, pr.ctxLive,
                                    withinWildcards, cnames)
       IN  /\ withinWildcards' = c.ww
           /\ cnames' = c.cn
           /\ emitted' = emitted \cup c.out
                         \cup (IF c.fwd THEN {ResolvedRequest(pr.req)} ELSE {})
           /\ procs' = [procs EXCEPT ![p] =
                           [@ EXCEPT !.pc = "done", !.times = pr.reply, !.fwd = c.fwd,
                                     !.probed = c.probed, !.result = "data"]]
    /\ UNCHANGED <<subdomains, timesChan, done, tmpc, replies, minForRecursive>>
    /\ UNCHANGED dmVars

\* subdomainTask.Stop (part_000:43-47): done is closed and the sets are released
SubStop ==
    /\ ~done
    /\ done' = TRUE
    /\ withinWildcards' = {}
    /\ cnames' = {}
    /\ UNCHANGED <<subdomains, timesChan, tmpc, procs, replies, emitted, minForRecursive>>
    /\ UNCHANGED dmVars

SubInitWith(min) ==
    /\ minForRecursive = min
    /\ subdomains = [s \in AllSubs |-> 0]
    /\ timesChan = <<>>
    /\ done = FALSE
    /\ tmpc = "select"
    /\ withinWildcards = {}
    /\ cnames = {}
    /\ procs = [p \in ProcIds |-> IdleProc]
    /\ replies = [s \in AllSubs |-> <<>>]
    /\ emitted = {}

SubInit == SubInitWith(MinForRecursive)

SubIdle == SubInit

-----------------------------------------------------------------------------
(* Inputs.                                                                 *)

NoCancel == 9

DNSRequest(name, recs) ==
    [kind |-> "DNS", isNil |-> FALSE, name |-> name, domain |-> "example.com",
     source |-> "DNS", recs |-> recs]

Rec(type, data) == [type |-> type, rname |-> <<"S", ".">>, data |-> data]

RecTypes == {"CNAME", "A", "AAAA", "PTR", "SRV", "NS", "MX", "TXT"}

RecData == {<<>>, <<"C", ".", "a", ".", "b", ".">>, <<"c">>, <<" ", "1", ".", "2", ".", "3", ".", "4">>}

InputRecords == {Rec(t, d) : t \in RecTypes, d \in RecData}

RecordArrays ==
    {<<>>} \cup {<<a>> : a \in InputRecords} \cup {<<a, b>> : a, b \in InputRecords}

DNSEnvs == {[ctx |-> c, gfail |-> g, uuid |-> "u-1"] : c \in {0, 1, 2, NoCancel}, g \in 0..2}

\* record handling: the pipeline hands one request, with any record array, to a
\* fresh Data Manager
SpecDNSInit ==
    /\ DMInit
    /\ SubIdle
    /\ \E name \in {"www.example.com", "bad.example.com"} :
       \E recs \in RecordArrays :
       \E env \in DNSEnvs :
           inbox = [pending |-> TRUE, data |-> DNSRequest(name, recs), env |-> env]

SpecDNSNext ==
    /\ inbox.pending
    /\ DMProcess(inbox.data, inbox.env)
    /\ inbox' = NoInput

SpecDNS == SpecDNSInit /\ [][SpecDNSNext]_vars

AddrRequest(addr, inScope) ==
    [kind |-> "Addr", isNil |-> FALSE, address |-> addr, inScope |-> inScope,
     domain |-> "example.com", source |-> "DNS"]

ARecord == Rec("A", <<" ", "1", ".", "2", ".", "3", ".", "4">>)

\* deduplication: a sequence of Process calls on a few identifiers, Stop and the
\* lookup sources in between
DedupInputs ==
    {DNSRequest(n, <<ARecord>>) : n \in {"www.example.com", "api.example.com", ""}}
    \cup {AddrRequest(a, TRUE) : a \in {"10.0.0.1", "198.51.100.7"}}
    \cup {[kind |-> "Other", isNil |-> FALSE]}
    \cup {[DNSRequest("www.example.com", <<>>) EXCEPT !.isNil = TRUE]}

DedupEnvs == {[ctx |-> c, gfail |-> 0, uuid |-> "u-1"] : c \in {0, NoCancel}}

SpecDedupInit == DMInit /\ SubIdle /\ inbox = NoInput

DedupProcess ==
    \E data \in DedupInputs : \E env \in DedupEnvs :
        DMProcess(data, env) /\ UNCHANGED inbox

SpecDedupNext ==
    \/ DedupProcess
    \/ DMStop
    \/ CacheUpdate

SpecDedup == SpecDedupInit /\ [][SpecDedupNext]_vars

\* ASN enrichment: in-scope addresses arrive while the worker runs, the lookup
\* sources answer or stay silent, and Stop is called at any moment
ASNInputs == {AddrRequest(a, TRUE) : a \in {"198.51.100.7", "2001:db8:1::7"}}

ASNEnv == [ctx |-> NoCancel, gfail |-> 0, uuid |-> "u-1"]

SpecASNInit == DMInit /\ SubIdle /\ inbox = NoInput

ASNProcess == \E data \in ASNInputs : DMProcess(data, ASNEnv) /\ UNCHANGED inbox

SpecASNNext ==
    \/ ASNProcess
    \/ DMStop
    \/ CacheUpdate
    \/ WorkerExit
    \/ WorkerDrain
    \/ WorkerSignal
    \/ WorkerPoll
    \/ WorkerFallback
    \/ WorkerUpdate

SpecASN == SpecASNInit /\ [][SpecASNNext]_vars

\* one prefix: two addresses of one /24 arrive while the worker runs and the
\* lookup sources answer or stay silent
PrefixInputs == {AddrRequest(a, TRUE) : a \in {"198.51.100.7", "198.51.100.9"}}

SpecPrefixInit == DMInit /\ SubIdle /\ inbox = NoInput

PrefixProcess == \E data \in PrefixInputs : DMProcess(data, ASNEnv) /\ UNCHANGED inbox

SpecPrefixNext ==
    \/ PrefixProcess
    \/ CacheUpdate
    \/ WorkerSignal
    \/ WorkerPoll
    \/ WorkerFallback
    \/ WorkerUpdate

SpecPrefix == SpecPrefixInit /\ [][SpecPrefixNext]_vars

\* shutdown: an address arrives any number of times, Stop is called at any
\* moment, and the worker goroutine keeps being scheduled: none of its steps
\* blocks (the select of store.go:382-391 is ready once signalDone is closed, the
\* polling loop sleeps a second per iteration)
DrainInputs == {AddrRequest("198.51.100.7", TRUE)}

SpecDrainInit == DMInit /\ SubIdle /\ inbox = NoInput

DrainProcess == \E data \in DrainInputs : DMProcess(data, ASNEnv) /\ UNCHANGED inbox

SpecDrainNext ==
    \/ DrainProcess
    \/ DMStop
    \/ CacheUpdate
    \/ WorkerExit
    \/ WorkerDrain
    \/ WorkerSignal
    \/ WorkerPoll
    \/ WorkerFallback
    \/ WorkerUpdate

SpecDrain ==
    /\ SpecDrainInit /\ [][SpecDrainNext]_vars
    /\ WF_vars(WorkerExit) /\ WF_vars(WorkerDrain) /\ WF_vars(WorkerSignal)
    /\ WF_vars(WorkerPoll) /\ WF_vars(WorkerFallback) /\ WF_vars(WorkerUpdate)

\* graph errors: requests with address records arrive one after the other while
\* the graph fails on none, the first or the second record, and Stop is called
\* at any moment
AAAARecord == Rec("AAAA", <<"c">>)

ErrInputs ==
    {DNSRequest(n, recs) : n \in {"www.example.com", "api.example.com"},
                           recs \in {<<ARecord>>, <<ARecord, AAAARecord>>,
                                     <<AAAARecord, ARecord>>}}

ErrEnvs == {[ctx |-> NoCancel, gfail |-> g, uuid |-> "u-1"] : g \in 0..2}

SpecErrInit == DMInit /\ SubIdle /\ inbox = NoInput

ErrProcess ==
    \E data \in ErrInputs : \E env \in ErrEnvs : DMProcess(data, env) /\ UNCHANGED inbox

SpecErrNext ==
    \/ ErrProcess
    \/ DMStop

SpecErr == SpecErrInit /\ [][SpecErrNext]_vars

\* address handling: AddrRequests in and out of scope, reserved or not, with and
\* without a session UUID, on contexts live or cancelled after entry, while the
\* lookup sources fill the cache
AddrInputs == {AddrRequest(a, s) : a \in {"10.0.0.1", "198.51.100.7"}, s \in BOOLEAN}

AddrEnvs == {[ctx |-> c, gfail |-> 0, uuid |-> u] : c \in {1, NoCancel}, u \in {"", "u-1"}}

SpecAddrInit == DMInit /\ SubIdle /\ inbox = NoInput

AddrProcess ==
    \E data \in AddrInputs : \E env \in AddrEnvs : DMProcess(data, env) /\ UNCHANGED inbox

SpecAddrNext ==
    \/ AddrProcess
    \/ DMStop
    \/ CacheUpdate

SpecAddr == SpecAddrInit /\ [][SpecAddrNext]_vars

\* classification: concurrent Process calls on names of three parents, one
\* under a wildcard, one a CNAME node, one plain
SubRequest(name) == [kind |-> "DNS", isNil |-> FALSE, name |-> name, domain |-> DomainAB]

SubInputs == {SubRequest(n) : n \in {NameXW, NameYW, NameXN, NameXS}}

SpecSubInit == DMInit /\ SubInit /\ inbox = NoInput

\* the calls are numbered in the order they are made
SubProcessStart ==
    \E p \in ProcIds : \E req \in SubInputs :
        /\ \A q \in 1..(p - 1) : procs[q].pc # "idle"
        /\ SubStart(p, req, TRUE)

SubProcessFinish == \E p \in ProcIds : SubFinish(p)

SpecSubNext ==
    \/ SubProcessStart
    \/ SubProcessFinish
    \/ TimesServe
    \/ TimesExit
    \/ SubStop

SpecSub == SpecSubInit /\ [][SpecSubNext]_vars

\* promotion: concurrent Process calls on names of a plain parent and of a
\* wildcard parent, under every threshold up to MinForRecursive
PromoInputs == {SubRequest(n) : n \in {NameXS, NameXW}}

SpecPromoInit ==
    /\ DMInit /\ inbox = NoInput
    /\ \E min \in 0..MinForRecursive : SubInitWith(min)

PromoProcessStart ==
    \E p \in ProcIds : \E req \in PromoInputs :
        /\ \A q \in 1..(p - 1) : procs[q].pc # "idle"
        /\ SubStart(p, req, TRUE)

SpecPromoNext ==
    \/ PromoProcessStart
    \/ SubProcessFinish
    \/ TimesServe
    \/ TimesExit
    \/ SubStop

SpecPromo == SpecPromoInit /\ [][SpecPromoNext]_vars

MaxCalls == 2

\* entry checks: a few Process calls on data of every kind, on live and on
\* cancelled contexts
EntryInputs ==
    {SubRequest(n) : n \in {NameXS, NameXW, NameApex, NameOut, NameSrv}}
    \cup {[SubRequest(NameXS) EXCEPT !.isNil = TRUE]}
    \cup {AddrRequest("198.51.100.7", TRUE)}

SpecEntryInit == DMInit /\ SubInit /\ inbox = NoInput

EntryProcessStart ==
    \E p \in 1..MaxCalls : \E req \in EntryInputs : \E ctxLive \in BOOLEAN :
        /\ \A q \in 1..(p - 1) : procs[q].pc # "idle"
        /\ SubStart(p, req, ctxLive)

SpecEntryNext ==
    \/ EntryProcessStart
    \/ SubProcessFinish
    \/ TimesServe
    \/ TimesExit
    \/ SubStop

SpecEntry == SpecEntryInit /\ [][SpecEntryNext]_vars

\* shutdown of the classifier: a few Process calls and Stop in any order, while
\* the timesManager goroutine and the callers keep being scheduled
SpecHaltInit == DMInit /\ SubInit /\ inbox = NoInput

HaltProcessStart ==
    \E p \in 1..MaxCalls : \E req \in PromoInputs :
        /\ \A q \in 1..(p - 1) : procs[q].pc # "idle"
        /\ SubStart(p, req, TRUE)

SpecHaltNext ==
    \/ HaltProcessStart
    \/ SubProcessFinish
    \/ TimesServe
    \/ TimesExit
    \/ SubStop

SpecHalt ==
    /\ SpecHaltInit /\ [][SpecHaltNext]_vars
    /\ WF_vars(TimesServe \/ TimesExit)
    /\ \A p \in ProcIds : WF_vars(SubFinish(p))

\* cancellation: both stages receive Process calls, some of them on a context
\* that is already cancelled
CancelDMInputs == {DNSRequest("www.example.com", <<ARecord>>), AddrRequest("198.51.100.7", TRUE)}

CancelSubInputs == {SubRequest(NameXS), SubRequest(NameXW)}

SpecCancelInit == DMInit /\ SubInit /\ inbox = NoInput

CancelDMProcess ==
    \E data \in CancelDMInputs : \E env \in DedupEnvs :
        DMProcess(data, env) /\ UNCHANGED inbox

CancelSubStart ==
    \E p \in 1..MaxCalls : \E req \in CancelSubInputs : \E ctxLive \in BOOLEAN :
        /\ \A q \in 1..(p - 1) : procs[q].pc # "idle"
        /\ SubStart(p, req, ctxLive)

SpecCancelNext ==
    \/ CancelDMProcess
    \/ CancelSubStart
    \/ SubProcessFinish
    \/ TimesServe

SpecCancel == SpecCancelInit /\ [][SpecCancelNext]_vars

-----------------------------------------------------------------------------
(* Properties of one Process call on a DNSRequest (SpecDNS).               *)

GraphOps == {"UpsertCNAME", "UpsertA", "UpsertAAAA", "UpsertPTR", "UpsertSRV",
             "UpsertNS", "UpsertMX", "UpsertInfrastructure"}

Called      == last.data.kind = "DNS"
Evs         == last.ev
Req         == last.data
GraphWrites == {k \in 1..Len(Evs) : Evs[k].op \in GraphOps}
WritesOf(op, i) == {k \in 1..Len(Evs) : Evs[k].op = op /\ Evs[k].rec = i}
Injected(kind) ==
    {k \in 1..Len(Evs) : Evs[k].op = "pipelineData" /\ Evs[k].kind = kind}
InjectedFor(kind, i) == {k \in Injected(kind) : Evs[k].rec = i}
HasCNAME    == \E i \in 1..Len(Req.recs) : Req.recs[i].type = "CNAME"
CNAMEIndex  == CHOOSE i \in 1..Len(Req.recs) :
                   /\ Req.recs[i].type = "CNAME"
                   /\ \A j \in 1..(i - 1) : Req.recs[j].type # "CNAME"
CNAMETarget == RemoveLastDot(Trim(ToLower(Req.recs[CNAMEIndex].data), "."))
\* the CNAME of the request is one insertCNAME enters
CNAMEUsable ==
    /\ CtxLive(last.env, 0)
    /\ ~Blacklisted(Req.name)
    /\ CNAMETarget # <<>>
    /\ EffectiveTLDPlusOne(CNAMETarget) # <<>>

\* C1 as stated: a request whose records contain a CNAME causes exactly one graph
\* write, the UpsertCNAME, whatever the other records are (read in its favour:
\* the context is never cancelled and the name is not blacklisted).
C1_ExactlyOneWrite ==
    (Called /\ HasCNAME /\ last.env.ctx = NoCancel /\ ~Blacklisted(Req.name)) =>
        /\ Cardinality(GraphWrites) = 1
        /\ \A k \in GraphWrites : Evs[k].op = "UpsertCNAME"

\* C1 amended: a request whose records contain a CNAME causes at most one graph
\* write, the UpsertCNAME of its first CNAME; it causes exactly one when the
\* context is live at entry, the name is not blacklisted and the CNAME target is
\* non-empty with an effective TLD+1, and none otherwise.
C1_AtMostOneWrite ==
    (Called /\ HasCNAME) =>
        /\ \A k \in GraphWrites :
              /\ Evs[k].op = "UpsertCNAME"
              /\ Evs[k].rec = CNAMEIndex
              /\ Evs[k].args = <<CNAMETarget>>
        /\ Cardinality(GraphWrites) = IF CNAMEUsable THEN 1 ELSE 0

\* a CNAME next to an A record with an address, and the single write was made
C1_Witness ==
    /\ Called /\ HasCNAME
    /\ \E i \in 1..Len(Req.recs) : Req.recs[i].type = "A" /\ TrimSpace(Req.recs[i].data) # <<>>
    /\ Cardinality(GraphWrites) = 1

\* C2: with a CNAME among the records only the first CNAME is handled: no
\* A/AAAA/PTR/SRV/NS/MX upsert, no AddrRequest, no checkForMissedWildcards, and at
\* most one DNSRequest re-injected, for the first CNAME's target with Source "DNS".
C2_CNAMEShortCircuit ==
    (Called /\ HasCNAME) =>
        /\ \A k \in 1..Len(Evs) :
              Evs[k].op \notin {"UpsertA", "UpsertAAAA", "UpsertPTR", "UpsertSRV",
                                "UpsertNS", "UpsertMX", "checkForMissedWildcards"}
        /\ Injected("AddrRequest") = {}
        /\ Cardinality(Injected("DNSRequest")) <= 1
        /\ \A k \in Injected("DNSRequest") :
              /\ Evs[k].target = CNAMETarget
              /\ Evs[k].source = "DNS"
              /\ Evs[k].rec = CNAMEIndex
        /\ \A k \in GraphWrites : Evs[k].rec = CNAMEIndex

\* an A record precedes the CNAME (or a second CNAME with another target follows
\* it) and the CNAME target was re-injected
C2_Witness ==
    /\ Called /\ HasCNAME /\ Len(Req.recs) = 2
    /\ \/ Req.recs[1].type = "A" /\ TrimSpace(Req.recs[1].data) # <<>>
       \/ /\ Req.recs[2].type = "CNAME"
          /\ Req.recs[1].data # Req.recs[2].data
          /\ EffectiveTLDPlusOne(RemoveLastDot(Trim(ToLower(Req.recs[2].data), "."))) # <<>>
    /\ Cardinality(Injected("DNSRequest")) = 1
    /\ Cardinality(GraphWrites) = 1

IsAddrRec(i) == Req.recs[i].type \in {"A", "AAAA"}
AddrOp(i)    == IF Req.recs[i].type = "A" THEN "UpsertA" ELSE "UpsertAAAA"
AddrOf(i)    == TrimSpace(Trim(ToLower(Req.recs[i].data), "."))

\* C3 as stated: every A or AAAA record of a processed in-scope request gets
\* exactly one AddrRequest and exactly one UpsertA/UpsertAAAA (read in its favour:
\* the context is never cancelled, the name is not blacklisted, the array holds no
\* CNAME and the record's own data is not blank).
C3_EveryAddrRecord ==
    (/\ Called /\ IsDomainInScope(Req.name) /\ last.env.ctx = NoCancel
     /\ ~Blacklisted(Req.name) /\ ~HasCNAME) =>
        \A i \in 1..Len(Req.recs) :
            (IsAddrRec(i) /\ AddrOf(i) # <<>>) =>
                /\ Cardinality(InjectedFor("AddrRequest", i)) = 1
                /\ Cardinality(WritesOf(AddrOp(i), i)) = 1

\* the record loop gets to record i: live context, name not blacklisted, no CNAME
\* in the array, no earlier record returned an error
Reached(i) ==
    /\ ~Blacklisted(Req.name)
    /\ ~HasCNAME
    /\ \A k \in 0..i : CtxLive(last.env, k)
    /\ \A j \in 1..(i - 1) : ~insertRecord(Req, j, last.env).err

\* C3 amended: every A or AAAA record the record loop gets to, with data that is
\* not blank, gets exactly one AddrRequest (InScope, Address = the trimmed data)
\* and exactly one UpsertA/UpsertAAAA call; any other A or AAAA record gets neither.
C3_ReachedAddrRecord ==
    Called =>
        \A i \in 1..Len(Req.recs) :
            IsAddrRec(i) =>
                IF Reached(i) /\ AddrOf(i) # <<>>
                THEN /\ Cardinality(InjectedFor("AddrRequest", i)) = 1
                     /\ \A k \in InjectedFor("AddrRequest", i) :
                           Evs[k].inScope /\ Evs[k].target = AddrOf(i)
                     /\ Cardinality(WritesOf(AddrOp(i), i)) = 1
                     /\ \A k \in WritesOf(AddrOp(i), i) : Evs[k].args = <<AddrOf(i)>>
                ELSE /\ InjectedFor("AddrRequest", i) = {}
                     /\ WritesOf(AddrOp(i), i) = {}

\* an A record and an AAAA record, both reached and both entered
C3_Witness ==
    /\ Called /\ Len(Req.recs) = 2
    /\ Req.recs[1].type = "A" /\ Req.recs[2].type = "AAAA"
    /\ Reached(2) /\ AddrOf(1) # <<>> /\ AddrOf(2) # <<>>
    /\ Cardinality(WritesOf("UpsertA", 1)) = 1
    /\ Cardinality(WritesOf("UpsertAAAA", 2)) = 1
    /\ Cardinality(Injected("AddrRequest")) = 2

-----------------------------------------------------------------------------
(* Deduplication (SpecDedup).                                              *)

\* the last call ran the filter: live context, a non-nil request, an identifier
Tested(l) ==
    /\ l.data.kind \in {"DNS", "Addr"}
    /\ ~l.data.isNil
    /\ CtxLive(l.env, 0)
    /\ IdOf(l.data) # ""

TestIndex(evs) == {k \in 1..Len(evs) : evs[k].op = "TestAndAdd"}

\* C4 as stated: since the last Stop, the first call carrying an identifier
\* returns the datum and every later call carrying it returns null.
C4_FirstForwardedLaterNull ==
    Tested(last) =>
        /\ last.first => last.result = "data"
        /\ ~last.first => last.result = NilData

\* C4 amended: a call carrying an identifier returns null exactly when the
\* filter reports all of the identifier's cells set: the first call carrying an
\* identifier returns the datum unless identifiers seen before have set its cells
\* (a false positive), a later call returns null unless the filter's random
\* eviction has cleared one of its cells since, and a call right after a call
\* with the same identifier returns null.  On every such call, first or later, the
\* side effects are all made before the one test-and-add.
C4_EffectsThenFilter ==
    Tested(last) =>
        LET id  == IdOf(last.data)
            evs == last.ev
        IN  /\ (last.result = NilData) <=> last.present
            /\ (last.first /\ ~last.clash) => last.result = "data"
            /\ id \in seen => HashCells(id) \subseteq filter
            /\ TestIndex(evs) = {Len(evs)}
            /\ last.data.kind = "DNS" =>
                  \E k \in 1..(Len(evs) - 1) : evs[k].op = "UpsertA"
            /\ (last.data.kind = "Addr" /\ last.data.address = "10.0.0.1") =>
                  \E k \in 1..(Len(evs) - 1) : evs[k].op = "UpsertInfrastructure"

\* a later arrival of a name: swallowed, after its A record was entered again
C4_Witness ==
    /\ Tested(last) /\ ~last.first /\ last.result = NilData
    /\ last.data.kind = "DNS"
    /\ Len(last.ev) = 4
    /\ last.ev[3].op = "UpsertA" /\ last.ev[4].op = "TestAndAdd"

-----------------------------------------------------------------------------
(* The ASN worker (SpecASN).                                               *)

Entries == 1..Len(entries)

\* C5 as stated: every entry appended to the ASN queue gets exactly one
\* UpsertInfrastructure, under any interleaving of Process, the worker and Stop:
\* never two, and none is left without one once the worker has closed confirmDone
\* (after which it performs nothing more).
C5_ExactlyOneUpsert ==
    /\ \A e \in Entries : Len(entries[e].infra) <= 1
    /\ confirmDone => \A e \in Entries : Len(entries[e].infra) = 1

\* C6: the worker leaves its loop and closes confirmDone only from a state in
\* which Stop has been called and the queue is empty; hence confirmDone is never
\* closed before Stop, and every entry that was queued when Stop was called has
\* been taken and served by nextInfraInfo before confirmDone is closed.
C6_ExitOnlyWhenStoppedAndDrained ==
    /\ [](confirmDone =>
            /\ signalDone
            /\ wpc = "done"
            /\ \A e \in atStop :
                  /\ \A k \in 1..Len(queue) : queue[k] # e
                  /\ Len(entries[e].infra) = 1)
    /\ [][(confirmDone' # confirmDone \/ (wpc' = "done" /\ wpc # "done")) =>
             /\ signalDone
             /\ queue = <<>>
             /\ confirmDone' /\ wpc' = "done"]_vars

\* the worker has left after Stop found entries in the queue
C6_Witness ==
    /\ confirmDone
    /\ atStop # {}
    /\ \A e \in atStop : Len(entries[e].infra) = 1

\* the prefixes of scenario S4: the address masked to /24, or to /48 for IPv6
ExpectedFake(addr) ==
    CASE addr = "198.51.100.7"  -> [fam |-> 4, groups |-> <<198, 51, 100, 0>>, bits |-> 24]
      [] addr = "198.51.100.9"  -> [fam |-> 4, groups |-> <<198, 51, 100, 0>>, bits |-> 24]
      [] addr = "2001:db8:1::7" -> [fam |-> 6, groups |-> <<8193, 3512, 1, 0, 0, 0, 0, 0>>,
                                    bits |-> 48]

\* C7: the fallback is taken only after the re-probe and all 30 poll probes
\* missed; it upserts ASN 0, "Unknown", "RIR" and the address masked to /24 (/48
\* for IPv6), and afterwards writes the same values into the cache with Address set
\* to the start of that prefix.  When a probe hits, the cached values are upserted
\* and no cache Update is made.
C7_FallbackAfterAllProbes ==
    /\ wpc = "poll" => (entries[cur].infra = <<>> /\ Len(entries[cur].asnreq) = 1)
    /\ wpc = "update" =>
          /\ polls = MaxPolls
          /\ Len(entries[cur].asnreq) = 1
          /\ Len(entries[cur].infra) = 1 /\ entries[cur].infra[1].via = "fallback"
          /\ entries[cur].upd = <<>>
    /\ \A e \in Entries :
          LET en == entries[e]
          IN  /\ Len(en.infra) <= 1 /\ Len(en.upd) <= 1
              /\ \A k \in 1..Len(en.infra) :
                    IF en.infra[k].via = "fallback"
                    THEN /\ en.infra[k].call =
                               UpsertInfrastructure(0, "Unknown", en.addr,
                                                    ExpectedFake(en.addr), "RIR", en.uuid)
                         /\ (wpc = "update" /\ cur = e) \/ Len(en.upd) = 1
                    ELSE /\ en.upd = <<>>
                         /\ \E r \in cache :
                               /\ Contains(r.prefix, ParseIP(en.addr))
                               /\ en.infra[k].call =
                                     UpsertInfrastructure(r.asn, r.desc, en.addr, r.prefix,
                                                          r.source, en.uuid)
              /\ \A k \in 1..Len(en.upd) :
                    /\ Len(en.infra) = 1 /\ en.infra[1].via = "fallback"
                    /\ en.upd[k] = [asn |-> 0, desc |-> "Unknown", source |-> "RIR",
                                    prefix |-> ExpectedFake(en.addr),
                                    address |-> [fam |-> ExpectedFake(en.addr).fam,
                                                 groups |-> ExpectedFake(en.addr).groups]]
                    /\ en.upd[k] \in cache

\* an IPv4 and an IPv6 address each went through the fallback and the cache Update
C7_Witness ==
    /\ \E e \in Entries : entries[e].addr = "198.51.100.7" /\ Len(entries[e].upd) = 1
    /\ \E e \in Entries : entries[e].addr = "2001:db8:1::7" /\ Len(entries[e].upd) = 1

-----------------------------------------------------------------------------
(* Properties of the Subdomain Classifier under concurrent Process calls   *)
(* (SpecSub).                                                              *)

Finished(p) == procs[p].pc = "done" /\ procs[p].times > 0

SubRequestsFor(sub) == {e \in emitted : e.kind = "SubdomainRequest" /\ e.name = sub}

ResolvedUnder(sub) ==
    {e \in emitted : e.kind = "ResolvedRequest" /\ ParentOf(e.name, e.domain) = sub}

\* C8: for every parent the times manager replies 1, 2, 3, ... in the order the
\* requests arrived on timesChan: the k-th request to arrive for a parent is
\* answered k, no two callers of one parent get the same value, and serving a
\* request changes the count of its own parent only, by one.
C8_TimesInArrivalOrder ==
    /\ [](/\ \A s \in AllSubs :
               /\ \A k \in 1..Len(replies[s]) : replies[s][k] = k
               /\ subdomains[s] = Len(replies[s])
          /\ \A p \in ProcIds : procs[p].reply > 0 => procs[p].reply = procs[p].ticket
          /\ \A p, q \in ProcIds :
               (p # q /\ procs[p].reply > 0 /\ procs[q].reply > 0
                      /\ procs[p].sub = procs[q].sub) => procs[p].reply # procs[q].reply)
    /\ [][\A s \in AllSubs :
             subdomains'[s] # subdomains[s] =>
                /\ timesChan # <<>> /\ Head(timesChan).sub = s
                /\ subdomains'[s] = subdomains[s] + 1]_vars

\* three callers of one parent were answered 1, 2 and 3 while a caller of another
\* parent, arriving between them, was answered 1
C8_Witness ==
    \E p, q, r, o \in ProcIds :
        /\ p < q /\ q < r /\ p < o /\ o < r
        /\ procs[p].sub = procs[q].sub /\ procs[q].sub = procs[r].sub
        /\ procs[o].sub # procs[p].sub
        /\ procs[p].reply = 1 /\ procs[q].reply = 2 /\ procs[r].reply = 3
        /\ procs[o].reply = 1

\* C9: before Stop, a parent that a call classified at times=1 as within a
\* wildcard or as a CNAME node has no SubdomainRequest emitted or injected for it
\* and no ResolvedRequest emitted for a name under it.
C9_NeverPromoted ==
    \A p \in ProcIds :
        (~done /\ Finished(p) /\ procs[p].times = 1 /\ ~procs[p].fwd) =>
            /\ SubRequestsFor(procs[p].sub) = {}
            /\ ResolvedUnder(procs[p].sub) = {}

-----------------------------------------------------------------------------
(* Promotion of plain parents (SpecPromo).                                 *)

PlainSub(sub) == sub \notin WildcardSubs \cup CNAMENodes

PlainCalls == {p \in ProcIds : Finished(p) /\ PlainSub(procs[p].sub)}

SentTo(p, to) ==
    SubdomainRequest(procs[p].req, procs[p].sub, procs[p].times, to) \in emitted

SubRequestsTo(sub, to) == {e \in SubRequestsFor(sub) : e.to = to}

\* what every threshold has in common: forward for every count, a request to
\* the handlers iff the count is within the threshold, every emitted request
\* stems from an observation, at most one injection and at most MinForRecursive
\* requests per parent
PromotionCommon ==
    /\ \A p \in PlainCalls :
          /\ procs[p].fwd
          /\ SentTo(p, "handlers") <=> procs[p].times <= minForRecursive
    /\ \A s \in AllSubs :
          PlainSub(s) =>
             /\ \A e \in SubRequestsFor(s) :
                   \E p \in PlainCalls : procs[p].sub = s /\ procs[p].times = e.times
             /\ Cardinality(SubRequestsTo(s, "root")) <= 1
             /\ Cardinality(SubRequestsTo(s, "handlers")) <= minForRecursive

\* C11 as stated: the observation with count k of a plain parent is injected
\* into "root" iff k = 1.
C11_RootIffFirst ==
    /\ PromotionCommon
    /\ \A p \in PlainCalls : SentTo(p, "root") <=> procs[p].times = 1

\* C11: for a parent that is neither wildcard nor CNAME, the observation with
\* count k returns "forward", emits SubdomainRequest{Times=k} to the handlers iff
\* k <= MinForRecursive, and injects it into "root" iff k = 1 and
\* MinForRecursive >= 1; per parent at most one injection and at most
\* MinForRecursive requests.
C11_RootIffFirstWithinThreshold ==
    /\ PromotionCommon
    /\ \A p \in PlainCalls :
          SentTo(p, "root") <=> (procs[p].times = 1 /\ minForRecursive >= 1)

\* scenario S5: threshold 2 and three observations of a plain parent
C11_Witness ==
    /\ minForRecursive = 2
    /\ \E p, q, r \in PlainCalls :
          /\ procs[p].times = 1 /\ procs[q].times = 2 /\ procs[r].times = 3
          /\ procs[p].sub = procs[q].sub /\ procs[q].sub = procs[r].sub
          /\ SentTo(p, "root") /\ SentTo(q, "handlers") /\ ~SentTo(r, "handlers")

-----------------------------------------------------------------------------
(* Entry checks of the classifier (SpecEntry), its verdict (SpecSub) and   *)
(* cancellation at entry of both stages (SpecCancel).                      *)

Entered(p) == procs[p].pc # "idle"

\* the datum is of another type, or a DNSRequest whose Name is out of scope
NonMatching(req) ==
    \/ req.kind # "DNS"
    \/ (~req.isNil /\ ~NameInScope(req.name))

\* the call never reached the times manager, the probe or an emission
Uncounted(p) ==
    /\ procs[p].pc = "done"
    /\ procs[p].ticket = 0 /\ procs[p].reply = 0 /\ procs[p].times = 0
    /\ ~procs[p].probed /\ ~procs[p].fwd

\* C12: a Process call of the classifier, on a live context, on a datum of
\* another type or on a DNSRequest whose Name is out of scope returns the datum
\* unchanged and does no counting, probing or emission for it.
C12_NonMatchingPassesThrough ==
    \A p \in ProcIds :
        (Entered(p) /\ procs[p].ctxLive /\ NonMatching(procs[p].req)) =>
            (Uncounted(p) /\ procs[p].result = "data")

\* C13: a ResolvedRequest is emitted and the DNSRequest is returned to the next
\* stage exactly when the classification is "forward"; on "do not forward"
\* neither happens.
C13_ForwardedIffVerdict ==
    /\ \A p \in ProcIds :
          Finished(p) =>
             IF procs[p].fwd
             THEN ResolvedRequest(procs[p].req) \in emitted /\ procs[p].result = "data"
             ELSE procs[p].result = NilData
    /\ \A e \in emitted :
          e.kind = "ResolvedRequest" =>
             \E p \in ProcIds : Finished(p) /\ procs[p].fwd /\ procs[p].req.name = e.name

\* C14: a Process call of either stage on a context that is already cancelled
\* returns null and changes nothing: no graph upsert, re-injection, enqueue or
\* filter insertion in the Data Manager; no count, set insertion or emission in
\* the classifier.
C14_CancelledAtEntry ==
    /\ [][(last' # last /\ last'.env.ctx = 0) =>
             /\ last'.result = NilData
             /\ last'.ev = <<>>
             /\ UNCHANGED <<filter, seen, queue, qsignal, entries, cache>>]_vars
    /\ [][\A p \in ProcIds :
             (~Entered(p) /\ procs'[p].pc # "idle" /\ ~procs'[p].ctxLive) =>
                /\ procs'[p].pc = "done" /\ procs'[p].ticket = 0
                /\ procs'[p].result = NilData
                /\ UNCHANGED <<subdomains, timesChan, replies, withinWildcards, cnames,
                               emitted>>]_vars

\* both stages have state to lose - a filled filter, a queued entry, a counted
\* parent - and each had a call on a cancelled context last
C14_Witness ==
    /\ last.env.ctx = 0 /\ last.data.kind = "Addr"
    /\ filter # {} /\ queue # <<>>
    /\ \E p, q \in ProcIds :
          /\ p < q
          /\ Finished(p) /\ subdomains[procs[p].sub] = 1
          /\ procs[q].pc = "done" /\ ~procs[q].ctxLive /\ procs[q].result = NilData

\* fewer than 2 labels, or fewer than the domain's labels plus one
ShortName(req) ==
    /\ req.kind = "DNS" /\ ~req.isNil
    /\ \/ Len(Split(req.name)) < 2
       \/ Len(Split(req.name)) < Len(Split(req.domain)) + 1

\* C20: a call on an in-scope name too short to have a parent inside its domain
\* sends nothing to the times manager, leaves the occurrence map and both sets
\* as they are, runs no probe, emits no SubdomainRequest and no ResolvedRequest,
\* and returns the DNSRequest.
C20_ShortNamesNotCounted ==
    /\ [](\A p \in ProcIds :
             (Entered(p) /\ procs[p].ctxLive /\ ShortName(procs[p].req)
                  /\ NameInScope(procs[p].req.name)) =>
                /\ Uncounted(p) /\ procs[p].result = "data"
                /\ ResolvedRequest(procs[p].req) \notin emitted)
    /\ [][\A p \in ProcIds :
             (~Entered(p) /\ procs'[p].pc # "idle" /\ procs'[p].ctxLive
                  /\ ShortName(procs'[p].req) /\ NameInScope(procs'[p].req.name)) =>
                UNCHANGED <<subdomains, timesChan, replies, withinWildcards, cnames,
                            emitted>>]_vars

\* the apex name was returned uncounted after another name had been counted
C20_Witness ==
    \E p, q \in ProcIds :
        /\ p < q
        /\ Finished(p) /\ subdomains[procs[p].sub] = 1
        /\ procs[q].pc = "done" /\ procs[q].ctxLive /\ procs[q].req.kind = "DNS"
        /\ procs[q].req.name = NameApex /\ procs[q].result = "data"

-----------------------------------------------------------------------------
(* Address handling in Process (SpecAddr).                                 *)

AddrCall(l) == l.data.kind = "Addr" /\ ~l.data.isNil

\* the call passed the checks of scope and session UUID on a live context
Accepted(l) == AddrCall(l) /\ CtxLive(l.env, 1) /\ l.data.inScope /\ l.env.uuid # ""

Reserved(addr) == ReservedPrefixes(addr) # {}

OpsOf(l, op) == {k \in 1..Len(l.ev) : l.ev[k].op = op}

Probes(l, hit) == {k \in OpsOf(l, "AddrSearch") : l.ev[k].hit = hit}

\* C15: an in-scope AddrRequest with a session UUID, on a live context, whose
\* address is reserved makes exactly one UpsertInfrastructure - ASN 0, "Reserved
\* Network Address Blocks", the reserved prefix, "RIR" - with no cache probe and
\* no append; no queue entry, hence no ASNRequest, ever exists for the address.
C15_ReservedAddress ==
    /\ []((Accepted(last) /\ Reserved(last.data.address)) =>
             /\ Len(last.ev) = 2
             /\ last.ev[1] = UpsertInfrastructure(0, "Reserved Network Address Blocks",
                                 last.data.address,
                                 [fam |-> 4, groups |-> <<10, 0, 0, 0>>, bits |-> 8],
                                 "RIR", last.env.uuid)
             /\ last.ev[2].op = "TestAndAdd")
    /\ [](\A e \in Entries : ~Reserved(entries[e].addr))
    /\ [][(last' # last /\ Accepted(last') /\ Reserved(last'.data.address)) =>
             UNCHANGED <<queue, qsignal, entries, cache>>]_vars

\* the reserved address was handled while another address waits in the queue
C15_Witness ==
    /\ Accepted(last) /\ last.data.address = "10.0.0.1"
    /\ OpsOf(last, "UpsertInfrastructure") = {1}
    /\ queue # <<>>

\* C16: Process appends to the queue iff the request is in scope, the UUID is
\* non-empty, the address is not reserved and the cache probe missed; then one
\* entry with the caller's context is appended and Process makes no
\* UpsertInfrastructure.  Out of scope or without UUID there is no graph write
\* and no append; on a cache hit there is one UpsertInfrastructure with the
\* cached values and the queue stays as it is.
C16_EnqueueIffMiss ==
    /\ [](AddrCall(last) =>
             /\ OpsOf(last, "Append") # {} <=>
                   /\ last.data.inScope /\ last.env.uuid # ""
                   /\ ~Reserved(last.data.address)
                   /\ Probes(last, FALSE) # {}
             /\ OpsOf(last, "Append") # {} =>
                   /\ Cardinality(OpsOf(last, "Append")) = 1
                   /\ OpsOf(last, "UpsertInfrastructure") = {}
             /\ (~last.data.inScope \/ last.env.uuid = "") =>
                   /\ OpsOf(last, "UpsertInfrastructure") = {}
                   /\ OpsOf(last, "AddrSearch") = {}
                   /\ OpsOf(last, "Append") = {}
             /\ Probes(last, TRUE) # {} =>
                   /\ Cardinality(OpsOf(last, "UpsertInfrastructure")) = 1
                   /\ OpsOf(last, "Append") = {})
    /\ [][/\ Len(queue') > Len(queue) =>
                /\ OpsOf(last', "Append") # {}
                /\ queue' = Append(queue, Len(entries) + 1)
                /\ entries' = Append(entries,
                                 [addr |-> last'.data.address, uuid |-> last'.env.uuid,
                                  ctx |-> last'.env.ctx, asnreq |-> <<>>, infra |-> <<>>,
                                  upd |-> <<>>])
          /\ (last' # last /\ AddrCall(last')) =>
                /\ OpsOf(last', "Append") = {} => UNCHANGED <<queue, entries>>
                /\ OpsOf(last', "Append") # {} => Len(queue') = Len(queue) + 1
                /\ Probes(last', FALSE) # {} =>
                      \A r \in cache : ~Contains(r.prefix, ParseIP(last'.data.address))
                /\ \A k \in Probes(last', TRUE) :
                      \E r \in cache :
                         /\ Contains(r.prefix, ParseIP(last'.data.address))
                         /\ last'.ev[k + 1] =
                               UpsertInfrastructure(r.asn, r.desc, last'.data.address,
                                                    r.prefix, r.source, last'.env.uuid)]_vars

\* an address was queued on a miss, and a later call for it was served from the
\* cache with the queue left alone
C16_Witness ==
    /\ AddrCall(last) /\ Probes(last, TRUE) # {}
    /\ Len(queue) = 1 /\ entries[queue[1]].addr = last.data.address
    /\ entries[queue[1]].ctx = NoCancel

-----------------------------------------------------------------------------
(* Graph errors in dnsRequest (SpecErr).                                   *)

FailedWrites(l) == {k \in 1..Len(l.ev) : l.ev[k].op \in GraphOps /\ ~l.ev[k].ok}

\* the upsert for a record failed: it is the last thing done for the records,
\* nothing is done for a later record, and the one test-and-add follows
StopsAtError(l) ==
    \A k \in FailedWrites(l) :
        /\ k = Len(l.ev) - 1
        /\ \A j \in 1..k : l.ev[j].rec <= l.ev[k].rec
        /\ l.ev[Len(l.ev)].op = "TestAndAdd" /\ l.ev[Len(l.ev)].id = l.data.name

\* C17 as stated: after a failed upsert for record i no later record is
\* processed, and the request is forwarded if its Name was not seen before (since
\* the last Stop) and swallowed otherwise.
C17_ErrorThenSeenFilter ==
    (last.data.kind = "DNS" /\ FailedWrites(last) # {}) =>
        /\ StopsAtError(last)
        /\ last.first => last.result = "data"
        /\ ~last.first => last.result = NilData

\* C17: after a failed upsert for record i no later record is processed, and the
\* request is still given to the filter, once and last: it is swallowed exactly
\* when the filter reports its Name as present, forwarded when the Name is new
\* and shares no cell with a Name seen before, and recorded as seen.
C17_ErrorThenFilter ==
    (last.data.kind = "DNS" /\ FailedWrites(last) # {}) =>
        /\ StopsAtError(last)
        /\ (last.result = NilData) <=> last.present
        /\ (last.first /\ ~last.clash) => last.result = "data"
        /\ Cardinality(OpsOf(last, "TestAndAdd")) = 1

\* the graph failed on the first of two records of a name that came before: the
\* second record was not entered and the request was swallowed
C17_Witness ==
    /\ last.data.kind = "DNS" /\ Len(last.data.recs) = 2
    /\ last.env.gfail = 1 /\ FailedWrites(last) # {}
    /\ ~last.first /\ last.result = NilData
    /\ OpsOf(last, "UpsertAAAA") = {}

-----------------------------------------------------------------------------
(* The per-entry protocol of the worker (SpecPrefix).                      *)

Covering(c, addr) == {r \in c : Contains(r.prefix, ParseIP(addr))}

\* the worker takes the head of the queue in this step
Takes(e) == queue # <<>> /\ Head(queue) = e /\ queue' = Tail(queue)

\* C18: for each entry the worker sends at most one ASNRequest, carrying the
\* address alone, and only when the re-probe missed; when the re-probe hits, a
\* cached record is upserted, no ASNRequest is sent and no polling starts.  An
\* entry whose address lies in the prefix that an earlier fallback wrote into the
\* cache, and in no other cached prefix, is served on its re-probe with ASN 0,
\* "Unknown".
C18_RequestAfterReprobeMiss ==
    /\ [](\A e \in Entries :
             /\ Len(entries[e].asnreq) <= 1
             /\ \A k \in 1..Len(entries[e].asnreq) :
                   entries[e].asnreq[k] = ASNRequest(entries[e].addr)
             /\ \A k \in 1..Len(entries[e].infra) :
                   entries[e].infra[k].via = "reprobe" => entries[e].asnreq = <<>>)
    /\ [][\A e \in Entries :
             /\ entries'[e].asnreq # entries[e].asnreq =>
                   /\ Takes(e)
                   /\ Covering(cache, entries[e].addr) = {}
                   /\ entries'[e].infra = <<>>
                   /\ wpc' = "poll" /\ cur' = e
             /\ (Takes(e) /\ Covering(cache, entries[e].addr) # {}) =>
                   /\ entries'[e].asnreq = <<>>
                   /\ Len(entries'[e].infra) = 1
                   /\ entries'[e].infra[1].via = "reprobe"
                   /\ \E r \in Covering(cache, entries[e].addr) :
                         entries'[e].infra[1].call =
                            UpsertInfrastructure(r.asn, r.desc, entries[e].addr, r.prefix,
                                                 r.source, entries[e].uuid)
                   /\ wpc' = "select" /\ polls' = polls
             /\ (Takes(e) /\ Covering(cache, entries[e].addr)
                                = {FallbackRecord(entries[e].addr)}) =>
                   /\ entries'[e].infra[1].call.asn = 0
                   /\ entries'[e].infra[1].call.desc = "Unknown"]_vars

\* 198.51.100.7 went through the fallback, and 198.51.100.9, queued meanwhile,
\* was served from the synthesized record without an ASNRequest
C18_Witness ==
    \E e, f \in Entries :
        /\ entries[e].addr = "198.51.100.7" /\ Len(entries[e].upd) = 1
        /\ entries[f].addr = "198.51.100.9" /\ entries[f].asnreq = <<>>
        /\ Len(entries[f].infra) = 1 /\ entries[f].infra[1].via = "reprobe"
        /\ entries[f].infra[1].call.asn = 0 /\ entries[f].infra[1].call.desc = "Unknown"

-----------------------------------------------------------------------------
(* Shutdown of the Data Manager (SpecDrain).                               *)

\* C19: once Stop has been called the worker eventually closes confirmDone, with
\* the queue drained at that moment; after Stop it is never at its select with
\* nothing to do, and an entry costs it the re-probe and at most 30 polls.
C19_StopLeadsToConfirm ==
    /\ signalDone ~> (confirmDone /\ wpc = "done")
    /\ [](polls <= MaxPolls)
    /\ []((signalDone /\ wpc = "select") => (ENABLED WorkerExit \/ ENABLED WorkerDrain))
    /\ [][confirmDone' # confirmDone => (queue = <<>> /\ queue' = <<>>)]_vars

\* the worker has left after Stop caught it in the polling loop with another
\* entry waiting
C19_Witness ==
    /\ confirmDone
    /\ Cardinality(atStop) = 1
    /\ Len(entries) = 2
    /\ \A e \in Entries : Len(entries[e].infra) = 1
    /\ \E e \in Entries : entries[e].infra[1].via = "fallback"

-----------------------------------------------------------------------------
(* Shutdown of the classifier (SpecHalt).                                  *)

\* C21: every Process call that has sent its request to the times manager
\* eventually receives the reply and returns, whenever Stop is called.
C21_EveryRequestAnswered ==
    \A p \in ProcIds : (procs[p].pc = "wait") ~> (procs[p].pc = "done")

=============================================================================
